---------------------------- MODULE Spec2Model ----------------------------
(***************************************************************************)
(* LibriVox plugin for Grayjay.                                            *)
(*                                                                         *)
(* The repository holds several revisions of the same script.  Two of      *)
(* them are modelled here, selected by the variable rev:                   *)
(*   "LS"  src/LibriVoxScript.js, lines 1-1086 (detail cache keyed by URL, *)
(*         latest-release dedup set, home pager with a latest segment);    *)
(*   "P1"  src/unnamed/part_001 (reader cache, API based pagers).          *)
(* Definitions carry the suffix of the revision they are translated from.  *)
(*                                                                         *)
(* The HTTP transport is the environment: every response is drawn from a   *)
(* small set.  A listing response is described by the number of entries it *)
(* holds and by which of the tracked book ids occur among them; entries    *)
(* outside the tracked ids are books that occur nowhere else.              *)
(***************************************************************************)
EXTENDS Integers, Sequences, FiniteSets, TLC

\* ------------------------------------------------------------------ bounds

MaxId == 2          \* tracked book ids are 1..MaxId; 0 is the empty id ''
MaxBook == 1        \* books addressable by a detail URL
MaxChap == 1        \* chapters of a book; chapter URLs carry 0..MaxChap-1
MaxReader == 1      \* reader ids
MaxCache == 2       \* entries the detail cache may hold before fetches stop
MaxPages == 2       \* pages a pager is followed for

\* ------------------------------------------------------- program constants

pageSize_LS == 50       \* HomeContentPager.pageSize
pageSize_P1 == 10       \* HomeContentPager.pageSize
searchLimit_P1 == 50    \* createAudiobookSearchPager: context.limit
readerLimit_P1 == 50    \* ReaderAudiobooksPager.nextPage: limit
authorLimit_P1 == 50    \* getAuthorAudiobooks: limit=50 in the request

\* ------------------------------------------------------------------ values

Revs == {"LS", "P1"}
\* "LB" is the second script of src/LibriVoxScript.js (from line 1095): P1's
\* detail resolution with an HLS source behind settings.useHLS.
RevsAll == Revs \cup {"LB"}

\* What a chapter of the catalogue carries: a listen_url (the file), a
\* section id, both or neither.
Medias == {"none", "file", "section", "both"}
HasFile(m) == m \in {"file", "both"}
HasSection(m) == m \in {"section", "both"}
\* A chapter record built without a section_id field.
FileOnly(m) == IF HasFile(m) THEN "file" ELSE "none"
Ids == 1..MaxId
IdsOrEmpty == 0..MaxId
Readers == 1..MaxReader

\* A detail URL: the book it addresses, whether it carries an id= parameter,
\* and its chapter= parameter (-1 when it has none).  Two URLs are the same
\* string iff they are the same record.
\* chap = -2 is an empty chapter= parameter; chap = MaxChap is the index of
\* no chapter.
Urls == [book : 1..MaxBook, hasId : BOOLEAN, chap : -2..MaxChap]
NoUrl == [book |-> 0, hasId |-> FALSE, chap |-> -1]

\* A resolved book detail.
Details == [book : 1..MaxBook, src : {"api", "html"}, nchap : 0..MaxChap,
            media : Medias]
NoDetail == [book |-> 0, src |-> "none", nchap |-> 0, media |-> "none"]

\* Reader info as fetchReaderInfo builds it.
ReaderInfos == [id : Readers, from : {"stats", "details", "placeholder"}]
NoReader == [id |-> 0, from |-> "none"]

EmptyFn == [x \in {} |-> 0]

\* URLs as the classifiers see them: scheme, host, path, whether the path
\* ends with '/', and the query string without its '?' ('' for none).
\* N stands for digits.
Schemes == {"https", "http"}
Hosts == {"librivox.org", "www.librivox.org", "grayjay.internal"}
Paths == {"some-book", "searching-tales", "poetry-collection-N", "search",
          "author/N", "reader/N", "group/N", "librivox/book/N"}
Queries == {"", "chapter=N", "chapter=", "id=N", "id=N&chapter=N"}
UrlForms == [scheme : Schemes, host : Hosts, path : Paths, slash : BOOLEAN,
             query : Queries]
NoForm == [scheme |-> "", host |-> "", path |-> "", slash |-> FALSE, query |-> ""]

\* The module-level `state` object.  kind tells what JSON.parse left in the
\* variable: an object, null, or a primitive (number, string, boolean).
\* keys are the properties the object holds.
StateObj(keys, ad, au, lr, rd) ==
    [kind |-> "obj", keys |-> keys, audiobookDetails |-> ad, authors |-> au,
     latestReleaseIds |-> lr, readers |-> rd]
StateNull == [kind |-> "null", keys |-> {}, audiobookDetails |-> EmptyFn,
              authors |-> {}, latestReleaseIds |-> {}, readers |-> EmptyFn]
StatePrim == [kind |-> "prim", keys |-> {}, audiobookDetails |-> EmptyFn,
              authors |-> {}, latestReleaseIds |-> {}, readers |-> EmptyFn]

Has(st, k) == st.kind = "obj" /\ k \in st.keys

\* ------------------------------------------------------------ JSON strings

\* JSON text.  An object's latestReleaseIds is an array (a sequence); the
\* in-memory value is a Set.
JObj(keys, ad, au, lrArr, rd) ==
    [kind |-> "obj", keys |-> keys, audiobookDetails |-> ad, authors |-> au,
     latestReleaseIds |-> lrArr, readers |-> rd]
JNull == [kind |-> "null", keys |-> {}, audiobookDetails |-> EmptyFn,
          authors |-> {}, latestReleaseIds |-> << >>, readers |-> EmptyFn]
JPrim == [kind |-> "prim", keys |-> {}, audiobookDetails |-> EmptyFn,
          authors |-> {}, latestReleaseIds |-> << >>, readers |-> EmptyFn]
JEmptyObj == JObj({}, EmptyFn, {}, << >>, EmptyFn)

StrAbsent == [t |-> "absent", v |-> JNull]     \* null, undefined or ''
StrGarbage == [t |-> "garbage", v |-> JNull]   \* text JSON.parse rejects
StrJson(v) == [t |-> "json", v |-> v]
StrThrown == [t |-> "thrown", v |-> JNull]     \* saveState raised

Range(s) == {s[i] : i \in DOMAIN s}

\* Array.from(set): the elements in order.
RECURSIVE ArrayFrom(_)
ArrayFrom(S) ==
    IF S = {} THEN << >>
    ELSE LET m == CHOOSE x \in S : \A y \in S : x <= y
         IN <<m>> \o ArrayFrom(S \ {m})

\* new Set(array)
NewSet(arr) == Range(arr)


\* ------------------------------------------------------------------- state

VARIABLES
    rev,      \* the revision of the script that is running
    state,    \* the module-level `state`
    saved,    \* the string the last source.saveState() returned
    pager,    \* the pager the host holds (home, search, reader or author)
    shown,    \* book ids the home pager surfaced as latest releases since
              \* the last source.enable (the session)
    last,     \* what the last operation did: its requests and its result
    settings, \* the plugin settings the host passed to source.enable
    media     \* the catalogue: what the chapters of its books carry

vars == <<rev, state, saved, pager, shown, last, settings, media>>

MaxAuthor == 1
AuthorIds == 1..MaxAuthor

\* A channel as getChannel returns it: its name, the URL its id is made of
\* (the requested one or the author's own) and the names of its links.
NoChannel == [name |-> "", idUrl |-> "", links |-> {}]

\* A pager object.  cursor is the offset (home, search) or the page (reader)
\* of its context; latest and regular are the ids of the items of its
\* current page, by segment.
NoPager == [kind |-> "none", latestLoaded |-> FALSE, cursor |-> 0,
            hasMore |-> FALSE, latest |-> {}, regular |-> {}]

\* The record of the last operation.  reqs are the HTTP requests it issued,
\* in order; hit tells whether its cache lookup found an entry; fetched and
\* limit are the entries the last listing request returned and asked for,
\* raw the tracked ids among them; cursor0 and cursor are the offset
\* requested by the call and the offset the next call will request; input
\* is the kind of string enable was given; chapter is the index of the
\* chapter a chapter-detail call returned; size0 is the number of entries
\* the detail cache held before the call; state0 is the state a reload
\* started from; failed tells that the listing request of a pager call got a
\* non-success status or an unreadable body, latestFailed the same of its
\* latest-releases request, and mutated that the pager object nextPage was
\* called on differs after the call; channel is the channel getChannel
\* returned; text is the duration text timeToSeconds was given and seconds
\* what it returned; sources is the source list of the chapter detail a
\* chapter-detail call returned; form is the URL the classifiers were
\* asked about and classes the classifiers that accepted it.
Last(op, url, hit, reqs, threw, ret, rd) ==
    [op |-> op, url |-> url, hit |-> hit, reqs |-> reqs, threw |-> threw,
     ret |-> ret, reader |-> rd, fetched |-> -1, limit |-> 0, hasMore |-> FALSE,
     cursor |-> 0, cursor0 |-> 0, raw |-> {}, input |-> "none",
     chapter |-> -1, size0 |-> 0, state0 |-> StateNull, sources |-> << >>,
     form |-> NoForm, classes |-> {}, failed |-> FALSE, latestFailed |-> FALSE,
     mutated |-> FALSE, channel |-> NoChannel, text |-> << >>, seconds |-> 0]
NoLast == Last("none", NoUrl, FALSE, << >>, FALSE, NoDetail, NoReader)

\* ------------------------------------------------- source.enable, saveState

\* `state.<key> = value` on whatever `state` holds: a TypeError on null,
\* silently dropped on a primitive (the script is not in strict mode).
CanAssign(st) == st.kind # "null"

\* Responses of the authors feed to loadAuthorsData.
AuthorsResponses ==
    {[kind |-> "fail", authors |-> {}], [kind |-> "nolist", authors |-> {}]}
    \cup {[kind |-> "ok", authors |-> A] : A \in SUBSET AuthorIds}

\* loadAuthorsData (LS): [state, threw].  data.authors.map raises when the
\* body has no authors array, and the assignment raises when state is null.
loadAuthorsData_LS(st, resp) ==
    CASE resp.kind = "fail" -> [state |-> st, threw |-> FALSE]
      [] resp.kind = "nolist" -> [state |-> st, threw |-> TRUE]
      [] OTHER ->
          IF st.kind = "null" THEN [state |-> st, threw |-> TRUE]
          ELSE IF st.kind = "prim" THEN [state |-> st, threw |-> FALSE]
          ELSE [state |-> [st EXCEPT !.authors = resp.authors,
                                     !.keys = @ \cup {"authors"}],
                threw |-> FALSE]

\* state.latestReleaseIds = new Set()
ResetLatest(st) ==
    IF st.kind = "obj"
    THEN [st EXCEPT !.latestReleaseIds = {}, !.keys = @ \cup {"latestReleaseIds"}]
    ELSE st

\* state.readers = {}
ResetReaders(st) ==
    IF st.kind = "obj"
    THEN [st EXCEPT !.readers = EmptyFn, !.keys = @ \cup {"readers"}]
    ELSE st

\* JSON.parse of the text of a value: the array of ids stays an array until
\* enable converts it.
JsonParse(v) ==
    IF v.kind = "obj"
    THEN StateObj(v.keys, v.audiobookDetails, v.authors, {}, v.readers)
    ELSE IF v.kind = "null" THEN StateNull ELSE StatePrim

\* The latestReleaseIds branch of enable: a Set from the array when the
\* parsed object holds one, an empty Set otherwise.
RestoreLatest(st, v) ==
    IF st.kind # "obj" THEN st
    ELSE IF "latestReleaseIds" \in v.keys
         THEN [st EXCEPT !.latestReleaseIds = NewSet(v.latestReleaseIds)]
         ELSE [st EXCEPT !.latestReleaseIds = {},
                         !.keys = @ \cup {"latestReleaseIds"}]

\* source.enable (LS): [state, threw, reqs].
enable_LS(st, s, resp) ==
    IF s.t = "json"
    THEN LET parsed == JsonParse(s.v)
         IN \* on null both the try block and the catch block raise
            [state |-> RestoreLatest(parsed, s.v),
             threw |-> ~CanAssign(parsed), reqs |-> << >>]
    ELSE IF s.t = "garbage"
    THEN [state |-> ResetLatest(st), threw |-> ~CanAssign(st), reqs |-> << >>]
    ELSE LET la == loadAuthorsData_LS(st, resp)
         IN IF la.threw
            THEN [state |-> la.state, threw |-> TRUE, reqs |-> <<"authors">>]
            ELSE [state |-> ResetLatest(la.state), threw |-> ~CanAssign(st),
                  reqs |-> <<"authors">>]

\* The readers branch of enable (P1): if (!state.readers) state.readers = {}
EnsureReaders(st) ==
    IF st.kind = "obj" /\ "readers" \notin st.keys THEN ResetReaders(st) ELSE st

\* source.enable (P1) assigning state.readers = {} after the parse as well.
enable_P1_ResetReaders(st, s) ==
    IF s.t = "json"
    THEN LET parsed == JsonParse(s.v)
         IN [state |-> ResetReaders(parsed), threw |-> ~CanAssign(parsed),
             reqs |-> << >>]
    ELSE [state |-> ResetReaders(st), threw |-> ~CanAssign(st), reqs |-> << >>]

\* source.enable (P1): [state, threw, reqs].
enable_P1(st, s) ==
    IF s.t = "json"
    THEN LET parsed == JsonParse(s.v)
         IN [state |-> EnsureReaders(parsed), threw |-> ~CanAssign(parsed),
             reqs |-> << >>]
    ELSE [state |-> ResetReaders(st), threw |-> ~CanAssign(st), reqs |-> << >>]

\* JSON.stringify of the state object.
JsonOf(st, lrArr) ==
    IF st.kind = "obj"
    THEN JObj(st.keys, st.audiobookDetails, st.authors, lrArr, st.readers)
    ELSE IF st.kind = "null" THEN JNull ELSE JPrim

\* source.saveState (LS): state.latestReleaseIds must be iterable, so the
\* call raises unless state is an object that holds the Set.
saveState_LS(st) ==
    IF Has(st, "latestReleaseIds")
    THEN StrJson(JsonOf(st, ArrayFrom(st.latestReleaseIds)))
    ELSE StrThrown

\* source.saveState (P1)
saveState_P1(st) == StrJson(JsonOf(st, << >>))

\* The strings the host may hand to enable: nothing, the last saved string,
\* or a corrupt one.
EnableInputs ==
    {StrAbsent, StrGarbage, StrJson(JNull), StrJson(JPrim), StrJson(JEmptyObj)}
    \cup (IF saved.t = "json" THEN {saved} ELSE {})

\* What kind of string enable was given.
InputKind(s) ==
    IF s.t # "json" THEN s.t
    ELSE IF s.v = JEmptyObj THEN "emptyobj" ELSE s.v.kind

Enable ==
    \E s \in EnableInputs :
       \E resp \in (IF rev = "LS" /\ s.t = "absent" THEN AuthorsResponses
                    ELSE {[kind |-> "fail", authors |-> {}]}) :
          LET r == IF rev = "LS" THEN enable_LS(state, s, resp)
                   ELSE enable_P1(state, s)
          IN /\ state' = r.state
             /\ shown' = {}
             /\ last' = [Last("enable", NoUrl, FALSE, r.reqs, r.threw,
                              NoDetail, NoReader)
                         EXCEPT !.input = InputKind(s)]
             /\ UNCHANGED <<rev, settings, media, saved, pager>>

SaveState ==
    LET r == IF rev = "LS" THEN saveState_LS(state) ELSE saveState_P1(state)
    IN /\ saved' = r
       /\ last' = Last("saveState", NoUrl, FALSE, << >>, r.t = "thrown",
                       NoDetail, NoReader)
       /\ UNCHANGED <<rev, settings, media, state, pager, shown>>

\* The host reloads the plugin: enable(conf, settings, saveState()).  When
\* saveState raises there is no string to hand over.
Reload ==
    LET s == IF rev = "LS" THEN saveState_LS(state) ELSE saveState_P1(state)
        r == IF s.t = "thrown" THEN [state |-> state, threw |-> TRUE, reqs |-> << >>]
             ELSE IF rev = "LS"
             THEN enable_LS(state, s, [kind |-> "fail", authors |-> {}])
             ELSE enable_P1(state, s)
    IN /\ state' = r.state
       /\ saved' = s
       /\ shown' = IF s.t = "thrown" THEN shown ELSE {}
       /\ last' = [Last("reload", NoUrl, FALSE, r.reqs, r.threw, NoDetail, NoReader)
                   EXCEPT !.input = InputKind(s), !.state0 = state]
       /\ UNCHANGED <<rev, settings, media, pager>>

\* ---------------------------------------------------------- URL classifiers

LibrivoxHost(u) == u.host \in {"librivox.org", "www.librivox.org"}

\* REGEX.CONTENT_DETAILS: not anchored at its start; needs the text
\* https://librivox.org/, path segments, '/?' and a chapter=<digits>
\* parameter.
CONTENT_DETAILS(u) ==
    /\ u.scheme = "https" /\ u.host = "librivox.org"
    /\ u.slash
    /\ u.query \in {"chapter=N", "id=N&chapter=N"}

\* REGEX.AUTHOR_CHANNEL, REGEX.READER_CHANNEL: /author/<digits> or
\* /reader/<digits>, no trailing '/', any query.
AUTHOR_CHANNEL(u) == LibrivoxHost(u) /\ u.path = "author/N" /\ ~u.slash
READER_CHANNEL(u) == LibrivoxHost(u) /\ u.path = "reader/N" /\ ~u.slash

\* Paths of one segment [a-zA-Z0-9-]+.
OneSegment == {"some-book", "searching-tales", "poetry-collection-N", "search"}

\* Paths the lookahead of REGEX.PLAYLIST refuses: those that begin with
\* search, pages, category, reader, author, group, collections or a date
\* (the '/' after the word is optional in the lookahead).
ReservedStart == {"search", "searching-tales", "author/N", "reader/N", "group/N"}

\* REGEX.PLAYLIST: one path segment that does not begin with a reserved
\* word, an optional '/', any query.
PLAYLIST(u) ==
    LibrivoxHost(u) /\ u.path \in OneSegment /\ u.path \notin ReservedStart

\* REGEX.GROUP
GROUP(u) ==
    /\ u.scheme = "https" /\ u.host = "librivox.org"
    /\ u.path = "group/N" /\ u.query = ""

\* url.startsWith('https://grayjay.internal/librivox/book')
InternalBook(u) ==
    u.scheme = "https" /\ u.host = "grayjay.internal" /\ u.path = "librivox/book/N"

\* url.includes('?chapter=')
IncludesChapter(u) == u.query \in {"chapter=N", "chapter="}

isContentDetailsUrl(r, u) ==
    IF r = "LS" THEN CONTENT_DETAILS(u)
    ELSE (InternalBook(u) /\ IncludesChapter(u)) \/ CONTENT_DETAILS(u)

isChannelUrl(r, u) ==
    IF r = "LS" THEN AUTHOR_CHANNEL(u)
    ELSE AUTHOR_CHANNEL(u) \/ READER_CHANNEL(u)

isPlaylistUrl(r, u) ==
    IF r = "LS" THEN PLAYLIST(u) \/ GROUP(u)
    ELSE InternalBook(u) \/ PLAYLIST(u) \/ GROUP(u)

\* The host asks the three classifiers about a URL.
Classify ==
    \E u \in UrlForms :
       /\ last' = [NoLast EXCEPT
                     !.op = "classify", !.form = u,
                     !.classes =
                        (IF isContentDetailsUrl(rev, u) THEN {"content"} ELSE {})
                        \cup (IF isChannelUrl(rev, u) THEN {"channel"} ELSE {})
                        \cup (IF isPlaylistUrl(rev, u) THEN {"playlist"} ELSE {})]
       /\ UNCHANGED <<rev, settings, media, state, saved, pager, shown>>

\* ------------------------------------------------------- listing responses

\* Numbers of entries a listing response may hold when `limit` were asked for.
Counts(limit) == {0, 1, limit}

\* Responses of the latest-releases feed: a non-success status, a body that
\* does not parse to an array, or the books (by their ids; 0 is a book whose
\* url_librivox is empty).
LatestResponses ==
    {[kind |-> "fail", ids |-> {}], [kind |-> "bad", ids |-> {}]}
    \cup {[kind |-> "ok", ids |-> S] : S \in SUBSET IdsOrEmpty}

\* Responses of a paged listing endpoint: a non-success status, a body the
\* handler cannot read, or n entries, among them the tracked ids.
PageResponses(limit) ==
    {[kind |-> "fail", n |-> 0, ids |-> {}], [kind |-> "bad", n |-> 0, ids |-> {}]}
    \cup UNION {{[kind |-> "ok", n |-> n, ids |-> S] :
                    S \in {T \in SUBSET IdsOrEmpty : Cardinality(T) <= n}} :
                 n \in Counts(limit)}

\* What a pager call leaves in `last`.  No pager call raises: every request
\* and every parse of a pager is inside a try whose catch returns a page.
PagerLast(op, reqs, resp, limit, hasMore, cursor0, cursor) ==
    [Last(op, NoUrl, FALSE, reqs, FALSE, NoDetail, NoReader)
     EXCEPT !.fetched = resp.n, !.raw = resp.ids, !.limit = limit,
            !.hasMore = hasMore, !.cursor0 = cursor0, !.cursor = cursor,
            !.failed = (resp.kind # "ok")]

\* ---------------------------------------------------- HomeContentPager (LS)

\* The filter of both catalog steps:
\*   book && book.id && !state.latestReleaseIds.has(book.id.value)
\* [ok, ids, count]: it raises (ok = FALSE) when a book is filtered and
\* state holds no Set.
FilterLatest_LS(st, resp) ==
    IF resp.n = 0 THEN [ok |-> TRUE, ids |-> {}, count |-> 0]
    ELSE IF ~Has(st, "latestReleaseIds") THEN [ok |-> FALSE, ids |-> {}, count |-> 0]
    ELSE [ok |-> TRUE, ids |-> resp.ids \ st.latestReleaseIds,
          count |-> resp.n - Cardinality(resp.ids \cap st.latestReleaseIds)]

\* Step 1 of loadInitialPage without the add to state.latestReleaseIds.
LoadLatest_NoAdd(st, lresp) ==
    [state |-> st, latest |-> IF lresp.kind = "ok" THEN lresp.ids ELSE {}]

\* Step 1 of loadInitialPage starting from a fresh Set: the ids of this
\* response replace the ids recorded before.
LoadLatest_Replace(st, lresp) ==
    IF lresp.kind # "ok" THEN [state |-> st, latest |-> {}]
    ELSE IF lresp.ids \ {0} = {} THEN [state |-> st, latest |-> lresp.ids]
    ELSE IF ~Has(st, "latestReleaseIds") THEN [state |-> st, latest |-> {}]
    ELSE [state |-> [st EXCEPT !.latestReleaseIds = lresp.ids \ {0}],
          latest |-> lresp.ids]

\* Step 1 of loadInitialPage: [state, latest].  Every book with a non-empty
\* id is added to state.latestReleaseIds; the add raises when state holds no
\* Set, and then no latest book is kept.
LoadLatest_LS(st, lresp) ==
    IF lresp.kind # "ok" THEN [state |-> st, latest |-> {}]
    ELSE IF lresp.ids \ {0} = {} THEN [state |-> st, latest |-> lresp.ids]
    ELSE IF ~Has(st, "latestReleaseIds") THEN [state |-> st, latest |-> {}]
    ELSE [state |-> [st EXCEPT !.latestReleaseIds = @ \cup (lresp.ids \ {0})],
          latest |-> lresp.ids]

\* HomeContentPager.loadInitialPage: [state, pager]
loadInitialPage_LS(st, h, lresp, cresp) ==
    LET l == LoadLatest_LS(st, lresp)
        f == IF cresp.kind = "ok" THEN FilterLatest_LS(l.state, cresp)
             ELSE [ok |-> TRUE, ids |-> {}, count |-> 0]
        regular == IF f.ok THEN f.ids ELSE {}
        count == IF f.ok THEN f.count ELSE 0
    IN [state |-> l.state,
        pager |-> [h EXCEPT !.latest = l.latest, !.regular = regular,
                            !.latestLoaded = TRUE, !.cursor = pageSize_LS,
                            !.hasMore = count > 0]]

\* HomeContentPager.loadMoreBooks: [state, pager]
loadMoreBooks_LS(st, h, cresp) ==
    LET f == FilterLatest_LS(st, cresp)
    IN IF cresp.kind = "ok" /\ cresp.n > 0 /\ f.ok
       THEN [state |-> st,
             pager |-> [h EXCEPT !.latest = {}, !.regular = f.ids,
                                 !.cursor = @ + pageSize_LS,
                                 !.hasMore = f.count > 0]]
       ELSE [state |-> st,
             pager |-> [h EXCEPT !.latest = {}, !.regular = {}, !.hasMore = FALSE]]

\* HomeContentPager.nextPage (LS)
nextPage_Home_LS(st, h, lresp, cresp) ==
    IF ~h.latestLoaded THEN loadInitialPage_LS(st, h, lresp, cresp)
    ELSE loadMoreBooks_LS(st, h, cresp)

\* ---------------------------------------------------- HomeContentPager (P1)

\* HomeContentPager.nextPage (P1) without the assignments
\* `this.hasMore = false` of its failure branches.
nextPage_Home_KeepHasMore(st, h, cresp) ==
    IF cresp.kind = "ok" /\ cresp.n > 0
    THEN [state |-> st,
          pager |-> [h EXCEPT !.latest = {}, !.regular = cresp.ids,
                              !.cursor = @ + pageSize_P1, !.hasMore = cresp.n > 0]]
    ELSE [state |-> st, pager |-> [h EXCEPT !.latest = {}, !.regular = {}]]

\* HomeContentPager.nextPage (P1): [state, pager]
nextPage_Home_P1(st, h, cresp) ==
    IF cresp.kind = "ok" /\ cresp.n > 0
    THEN [state |-> st,
          pager |-> [h EXCEPT !.latest = {}, !.regular = cresp.ids,
                              !.cursor = @ + pageSize_P1, !.hasMore = cresp.n > 0]]
    ELSE [state |-> st,
          pager |-> [h EXCEPT !.latest = {}, !.regular = {}, !.hasMore = FALSE]]

\* new HomeContentPager(): super([], true, {offset: 0})
NewHome == [kind |-> "home", latestLoaded |-> FALSE, cursor |-> 0,
            hasMore |-> TRUE, latest |-> {}, regular |-> {}]

\* The pager object HomeContentPager.nextPage was called on, after the call:
\* the method assigns this.results, this.offset and this.hasMore and
\* returns `this`.
Receiver_Home(h, returned) == returned

\* The pager object nextPage of a search or reader pager was called on, after
\* the call: the method builds a new pager with a new context.
Receiver_New(h, returned) == h

HomePageSize == IF rev = "LS" THEN pageSize_LS ELSE pageSize_P1

\* One call of nextPage on home pager h, with the responses the transport
\* gives.
HomeStep(h, op) ==
    \E lresp \in (IF rev = "LS" /\ ~h.latestLoaded THEN LatestResponses
                  ELSE {[kind |-> "fail", ids |-> {}]}) :
       \E cresp \in PageResponses(HomePageSize) :
          LET r == IF rev = "LS" THEN nextPage_Home_LS(state, h, lresp, cresp)
                   ELSE nextPage_Home_P1(state, h, cresp)
              reqs == IF rev = "LS" /\ ~h.latestLoaded
                      THEN <<"latest", "catalog">> ELSE <<"catalog">>
          IN /\ state' = r.state
             /\ pager' = r.pager
             /\ shown' = shown \cup r.pager.latest
             /\ last' = [PagerLast(op, reqs, cresp, HomePageSize,
                                   r.pager.hasMore, h.cursor, r.pager.cursor)
                          EXCEPT !.latestFailed = (Head(reqs) = "latest"
                                                   /\ lresp.kind # "ok"),
                                 !.mutated = (Receiver_Home(h, r.pager) # h)]
             /\ UNCHANGED <<rev, settings, media, saved>>

\* source.getHome: a new pager; the P1 constructor fetches the first page.
GetHome ==
    IF rev = "LS"
    THEN /\ pager' = NewHome
         /\ last' = Last("getHome", NoUrl, FALSE, << >>, FALSE, NoDetail, NoReader)
         /\ UNCHANGED <<rev, settings, media, state, saved, shown>>
    ELSE HomeStep(NewHome, "getHome")

\* nextPage on the home pager the host holds.
HomeNextPage ==
    /\ pager.kind = "home"
    /\ pager.cursor < MaxPages * HomePageSize
    /\ HomeStep(pager, "home.nextPage")

\* ----------------------------------------------- SearchAudiobooksPager (P1)

\* SearchAudiobooksPager.nextPage advancing by the fallback `limit || 10`
\* although the request asked for context.limit entries.
nextPage_Search_Fallback10(h, resp) ==
    IF resp.kind = "bad"
    THEN [pager |-> [h EXCEPT !.regular = {}, !.hasMore = FALSE]]
    ELSE LET n == IF resp.kind = "ok" THEN resp.n ELSE 0
         IN [pager |-> [h EXCEPT !.regular = {}, !.cursor = @ + pageSize_P1,
                                 !.hasMore = (n = searchLimit_P1)]]

\* SearchAudiobooksPager.nextPage (P1): [pager], the pager it
\* returns.  A body that cannot be read returns the same context; a
\* non-success status counts as an empty page.
nextPage_Search_P1(h, resp) ==
    IF resp.kind = "bad"
    THEN [pager |-> [h EXCEPT !.regular = {}, !.hasMore = FALSE]]
    ELSE LET n == IF resp.kind = "ok" THEN resp.n ELSE 0
             ids == IF resp.kind = "ok" THEN resp.ids \ {0} ELSE {}
         IN [pager |-> [h EXCEPT !.regular = ids,
                                 !.cursor = @ + searchLimit_P1,
                                 !.hasMore = (n = searchLimit_P1)]]

\* createAudiobookSearchPager: context {limit: 50, offset: 0}
NewSearch == [kind |-> "search", latestLoaded |-> FALSE, cursor |-> 0,
              hasMore |-> TRUE, latest |-> {}, regular |-> {}]

SearchStep(h, op) ==
    \E resp \in PageResponses(searchLimit_P1) :
       LET r == nextPage_Search_P1(h, resp)
       IN /\ pager' = r.pager
          /\ last' = [PagerLast(op, <<"search">>, resp, searchLimit_P1,
                                r.pager.hasMore, h.cursor, r.pager.cursor)
                       EXCEPT !.mutated = (Receiver_New(h, r.pager) # h)]
          /\ UNCHANGED <<rev, settings, media, state, saved, shown>>

\* source.search (P1): createAudiobookSearchPager(...).nextPage()
Search == rev = "P1" /\ SearchStep(NewSearch, "search")

\* nextPage on the search pager the host holds; the host keeps the pager
\* the call returns.
SearchNextPage ==
    /\ rev = "P1"
    /\ pager.kind = "search"
    /\ pager.cursor < MaxPages * searchLimit_P1
    /\ SearchStep(pager, "search.nextPage")

\* ----------------------------------------------- ReaderAudiobooksPager (P1)

\* The offset ReaderAudiobooksPager.nextPage requests for a page.
ReaderOffset(page) == (page - 1) * readerLimit_P1

\* ReaderAudiobooksPager.nextPage (P1): [pager].  The sections of
\* the page are grouped by audiobook_id; sections without one (id 0) are
\* skipped.
nextPage_Reader_P1(h, resp) ==
    IF resp.kind # "ok"
    THEN [pager |-> [h EXCEPT !.regular = {}, !.hasMore = FALSE]]
    ELSE [pager |-> [h EXCEPT !.regular = resp.ids \ {0},
                              !.cursor = @ + 1,
                              !.hasMore = (resp.n = readerLimit_P1)]]

\* getReaderAudiobooks: context {readerId, page: 1}
NewReaderPager == [kind |-> "reader", latestLoaded |-> FALSE, cursor |-> 1,
                   hasMore |-> TRUE, latest |-> {}, regular |-> {}]

ReaderStep(h, op) ==
    \E resp \in PageResponses(readerLimit_P1) :
       LET r == nextPage_Reader_P1(h, resp)
       IN /\ pager' = r.pager
          /\ last' = [PagerLast(op, <<"sections">>, resp, readerLimit_P1,
                                r.pager.hasMore, ReaderOffset(h.cursor),
                                ReaderOffset(r.pager.cursor))
                       EXCEPT !.mutated = (Receiver_New(h, r.pager) # h)]
          /\ UNCHANGED <<rev, settings, media, state, saved, shown>>

\* source.getChannelContents on a reader URL (P1)
GetReaderAudiobooks == rev = "P1" /\ ReaderStep(NewReaderPager, "getReaderAudiobooks")

ReaderNextPage ==
    /\ rev = "P1"
    /\ pager.kind = "reader"
    /\ pager.cursor <= MaxPages
    /\ ReaderStep(pager, "reader.nextPage")

\* -------------------------------------------------- getAuthorAudiobooks (P1)

\* getAuthorAudiobooks (P1): one request with limit=50; the pager it
\* returns.
getAuthorAudiobooks_P1(resp) ==
    [kind |-> "author", latestLoaded |-> FALSE, cursor |-> 0, hasMore |-> FALSE,
     latest |-> {}, regular |-> IF resp.kind = "ok" THEN resp.ids \ {0} ELSE {}]

\* source.getChannelContents on an author URL (P1)
GetAuthorAudiobooks ==
    /\ rev = "P1"
    /\ \E resp \in PageResponses(authorLimit_P1) :
          LET r == getAuthorAudiobooks_P1(resp)
          IN /\ pager' = r
             /\ last' = PagerLast("getAuthorAudiobooks", <<"authorbooks">>,
                                  resp, authorLimit_P1, r.hasMore, 0, 0)
             /\ UNCHANGED <<rev, settings, media, state, saved, shown>>

\* --------------------------------------------------------- book details

BookUrls == {u \in Urls : u.chap = -1}
ChapterUrls == {u \in Urls : u.chap >= 0}

\* Responses of the structured detail endpoint (by id): a non-success
\* status; a body without books[0]; a book without a sections array; a book
\* with its sections (every book of the catalogue has MaxChap of them).  views tells whether the book names an archive.org
\* item, for which the view count is requested.
ApiResponses ==
    {[kind |-> "fail", views |-> FALSE, nchap |-> 0, media |-> "none"],
     [kind |-> "bad", views |-> FALSE, nchap |-> 0, media |-> "none"]}
    \cup {[kind |-> "nosections", views |-> v, nchap |-> 0, media |-> "none"] :
             v \in BOOLEAN}
    \cup {[kind |-> "ok", views |-> v, nchap |-> MaxChap, media |-> media] :
             v \in BOOLEAN}

\* Responses to the request of the book page: a non-success status, a body
\* the DOM parser rejects, or the page with the book's chapter rows.
HtmlResponses ==
    {[kind |-> "fail", nchap |-> 0, media |-> "none"],
     [kind |-> "bad", nchap |-> 0, media |-> "none"]}
    \cup {[kind |-> "ok", nchap |-> MaxChap, media |-> FileOnly(media)]}

Thrown(st, reqs) == [state |-> st, threw |-> TRUE, ret |-> NoDetail, reqs |-> reqs]
Returned(st, d, reqs) == [state |-> st, threw |-> FALSE, ret |-> d, reqs |-> reqs]

\* state.audiobookDetails[url] = d
Store(st, url, d) ==
    [st EXCEPT !.audiobookDetails = (url :> d) @@ @]

ApiReqs(a) == IF a.views THEN <<"api", "views">> ELSE <<"api">>

\* fetchAudiobookDetailsFromApi (LS) assigning the cache entry before the
\* sections are mapped: a book without sections leaves an entry behind.
fetchAudiobookDetailsFromApi_StoreFirst(st, url, a) ==
    IF a.kind \in {"fail", "bad"} THEN Thrown(st, <<"api">>)
    ELSE IF ~Has(st, "authors") THEN Thrown(st, ApiReqs(a))
    ELSE LET d == [book |-> url.book, src |-> "api", nchap |-> a.nchap,
                   media |-> FileOnly(a.media)]
         IN IF a.kind = "nosections" THEN Thrown(Store(st, url, d), ApiReqs(a))
            ELSE Returned(Store(st, url, d), d, ApiReqs(a))

\* fetchAudiobookDetailsFromApi (LS): [state, threw, ret, reqs]
fetchAudiobookDetailsFromApi_LS(st, url, a) ==
    IF a.kind \in {"fail", "bad"} THEN Thrown(st, <<"api">>)
    ELSE IF a.kind = "nosections" \/ ~Has(st, "authors") THEN Thrown(st, ApiReqs(a))
    ELSE LET d == [book |-> url.book, src |-> "api", nchap |-> a.nchap,
                   media |-> FileOnly(a.media)]
         IN Returned(Store(st, url, d), d, ApiReqs(a))

\* fetchAudiobookDetailsFromHtml (LS): [state, threw, ret, reqs]
fetchAudiobookDetailsFromHtml_LS(st, url, h) ==
    IF h.kind # "ok" THEN Thrown(st, <<"html">>)
    ELSE LET d == [book |-> url.book, src |-> "html", nchap |-> h.nchap,
                   media |-> h.media]
         IN Returned(Store(st, url, d), d, <<"html">>)

\* The lookup state.audiobookDetails[url] finds an entry.
CacheHit_LS(st, url) ==
    Has(st, "audiobookDetails") /\ url \in DOMAIN st.audiobookDetails

\* The lookup is skipped: every call fetches.
getAudiobookCachedDetails_NoLookup(st, url, a, h) ==
    IF ~Has(st, "audiobookDetails") THEN Thrown(st, << >>)
    ELSE IF url.hasId THEN fetchAudiobookDetailsFromApi_LS(st, url, a)
    ELSE fetchAudiobookDetailsFromHtml_LS(st, url, h)

\* getAudiobookCachedDetails (LS): [state, threw, ret, reqs].  The lookup
\* raises when state holds no audiobookDetails object.
getAudiobookCachedDetails_LS(st, url, a, h) ==
    IF ~Has(st, "audiobookDetails") THEN Thrown(st, << >>)
    ELSE IF CacheHit_LS(st, url) THEN Returned(st, st.audiobookDetails[url], << >>)
    ELSE IF url.hasId THEN fetchAudiobookDetailsFromApi_LS(st, url, a)
    ELSE fetchAudiobookDetailsFromHtml_LS(st, url, h)

\* fetchAudiobookDetailsFromApi (P1): [state, threw, ret, reqs]
fetchAudiobookDetailsFromApi_P1(st, url, a) ==
    IF a.kind \in {"fail", "bad"} THEN Thrown(st, <<"api">>)
    ELSE IF a.kind = "nosections" THEN Thrown(st, ApiReqs(a))
    ELSE Returned(st, [book |-> url.book, src |-> "api", nchap |-> a.nchap,
                       media |-> a.media],
                  ApiReqs(a))

\* fetchAudiobookDetailsFromHtml (P1): [state, threw, ret, reqs]
fetchAudiobookDetailsFromHtml_P1(st, url, h) ==
    IF h.kind # "ok" THEN Thrown(st, <<"html">>)
    ELSE Returned(st, [book |-> url.book, src |-> "html", nchap |-> h.nchap,
                       media |-> h.media],
                  <<"html">>)

\* The HTML page is tried when the endpoint fails.
getAudiobookCachedDetails_HtmlFallback(st, url, a, h) ==
    IF url.hasId
    THEN LET r == fetchAudiobookDetailsFromApi_P1(st, url, a)
             f == fetchAudiobookDetailsFromHtml_P1(st, url, h)
         IN IF r.threw THEN [f EXCEPT !.reqs = r.reqs \o @] ELSE r
    ELSE fetchAudiobookDetailsFromHtml_P1(st, url, h)

\* getAudiobookCachedDetails (P1): [state, threw, ret, reqs]
getAudiobookCachedDetails_P1(st, url, a, h) ==
    IF url.hasId THEN fetchAudiobookDetailsFromApi_P1(st, url, a)
    ELSE fetchAudiobookDetailsFromHtml_P1(st, url, h)

\* The chapter a chapter-detail call picks:
\*   playlistInfo.chapters.find(c => c.chapterId == chapterId)
\* -1 when there is none, and then the call raises 'Chapter not found'.
\* chapterId is the string searchParams.get("chapter") gave, or null; the
\* loose comparison converts the string to a number, and '' converts to 0.
FindChapter(d, chap) ==
    IF chap >= 0 /\ chap < d.nchap THEN chap
    ELSE IF chap = -2 /\ d.nchap > 0 THEN 0
    ELSE -1

\* The audio sources of a chapter detail.
AudioUrlSource(name, url) ==
    [type |-> "AudioUrlSource", name |-> name, container |-> "audio/mpeg",
     codec |-> "mp4a.40.2", url |-> url]
HLSSource(url) ==
    [type |-> "HLSSource", name |-> "HLS", container |-> "", codec |-> "",
     url |-> url]
DirectSource == AudioUrlSource("audio (archive.org)", "listen_url")
ProxySource == AudioUrlSource("audio (cached v2)", "proxy/section_id.mp3")
HlsProxySource == HLSSource("proxy/section_id.m3u8")

\* getChapterDetails (LS): one source, whose url is chapter.chapterFile
\* whatever it holds.
Sources_LS(m) ==
    <<AudioUrlSource("audio", IF HasFile(m) THEN "listen_url" ELSE "")>>

\* source.getContentDetails (P1): the sources pushed, in order.
Sources_P1(m) ==
    (IF HasFile(m) THEN <<DirectSource>> ELSE << >>)
    \o (IF HasSection(m) THEN <<ProxySource>> ELSE << >>)

\* source.getContentDetails (LB): the sources pushed, in order.
Sources_LB(m, useHLS) ==
    (IF HasFile(m) THEN <<DirectSource>> ELSE << >>)
    \o (IF HasSection(m)
        THEN (IF useHLS THEN <<HlsProxySource>> ELSE << >>) \o <<ProxySource>>
        ELSE << >>)

SourcesOf(r, m) ==
    IF r = "LS" THEN Sources_LS(m)
    ELSE IF r = "P1" THEN Sources_P1(m)
    ELSE Sources_LB(m, settings.useHLS)

\* The entries of the detail cache.
CacheSize(st) == IF st.kind = "obj" THEN Cardinality(DOMAIN st.audiobookDetails) ELSE 0

\* A detail request for url may be made: the cache has room for its entry.
Room(url) == CacheHit_LS(state, url) \/ CacheSize(state) < MaxCache

DetailStep(op, url, r, chapter, sources) ==
    /\ state' = r.state
    /\ last' = [Last(op, url, rev = "LS" /\ CacheHit_LS(state, url), r.reqs,
                     r.threw \/ (op = "getContentDetails" /\ chapter = -1),
                     r.ret, NoReader)
                EXCEPT !.chapter = chapter, !.size0 = CacheSize(state),
                       !.sources = sources]
    /\ UNCHANGED <<rev, settings, media, saved, pager, shown>>

\* The responses the transport gives to the requests a detail call for url
\* may issue.
ApiFor(url) ==
    IF url.hasId THEN ApiResponses
    ELSE {[kind |-> "fail", views |-> FALSE, nchap |-> 0, media |-> "none"]}
HtmlFor(url) ==
    IF url.hasId \/ url.book = 0
    THEN {[kind |-> "fail", nchap |-> 0, media |-> "none"]}
    ELSE HtmlResponses

\* The URL getAudiobookDetails gives chapter i of the book it resolved from
\* url.  LS appends chapter=i to url.  P1 builds
\* https://grayjay.internal/librivox/book/<bookId>?chapter=i with
\* bookId = extractId(url) || url.split('/').pop(): for a book page URL,
\* which ends in '/', bookId is '' and the URL names no book (book 0).
ChapterUrl(r, url, i) ==
    IF r = "LS" \/ url.hasId THEN [url EXCEPT !.chap = i]
    ELSE [book |-> 0, hasId |-> FALSE, chap |-> i]

\* The url of the PlatformPlaylistDetails getAudiobookDetails returns for
\* url.  LS returns url itself.  P1 returns
\* https://grayjay.internal/librivox/book/<bookId>, which carries no id
\* parameter: for extractId it names no book (book 0).
PlaylistUrl(r, url) ==
    IF r = "LS" THEN url ELSE [book |-> 0, hasId |-> FALSE, chap |-> -1]

\* The URLs source.getPlaylist is called with: those of books, and those
\* getAudiobookDetails emitted.
PlaylistUrls == BookUrls \cup {PlaylistUrl(rev, u) : u \in BookUrls}

\* source.getPlaylist: getAudiobookDetails
GetPlaylist ==
    \E url \in PlaylistUrls : \E a \in ApiFor(url) : \E h \in HtmlFor(url) :
       /\ Room(url)
       /\ LET r == IF rev = "LS" THEN getAudiobookCachedDetails_LS(state, url, a, h)
                   ELSE getAudiobookCachedDetails_P1(state, url, a, h)
          IN DetailStep("getPlaylist", url, r, -1, << >>)

\* source.getContentDetails: getChapterDetails (LS), which looks the book up
\* under the chapter URL; the P1 handler resolves the book itself.
\* The URLs source.getContentDetails is called with.  LS is handed the URLs
\* REGEX.CONTENT_DETAILS accepts (chapter=<digits>); the later scripts also
\* take the internal form, whose chapter= may be empty, and resolve a URL
\* without the parameter as well; among the internal URLs are the chapter
\* URLs getAudiobookDetails emits.
ContentUrls ==
    ChapterUrls
    \cup (IF rev = "LS" THEN {}
          ELSE {u \in Urls : u.chap = -1 \/ (u.chap = -2 /\ u.hasId)}
               \cup {ChapterUrl(rev, u, i) : u \in BookUrls, i \in 0..(MaxChap - 1)})

GetContentDetails ==
    \E url \in ContentUrls : \E a \in ApiFor(url) : \E h \in HtmlFor(url) :
       /\ Room(url)
       /\ LET r == IF rev = "LS" THEN getAudiobookCachedDetails_LS(state, url, a, h)
                   ELSE IF url.hasId THEN fetchAudiobookDetailsFromApi_P1(state, url, a)
                   ELSE fetchAudiobookDetailsFromHtml_P1(state, url, h)
              chapter == IF r.threw THEN -1 ELSE FindChapter(r.ret, url.chap)
          IN DetailStep("getContentDetails", url, r, chapter,
                        IF chapter = -1 THEN << >>
                        ELSE SourcesOf(rev, r.ret.media))

\* ------------------------------------------------------- reader channel (P1)

ReaderResponseKinds == {"fail", "bad", "empty", "ok"}

\* fetchReaderInfo: [info, reqs].  The stats endpoint first, then the basic
\* details endpoint, then the placeholder 'Reader <id>'; a body that does not
\* parse ends in the placeholder at once.
fetchReaderInfo(readerId, stats, details) ==
    IF stats = "ok" THEN [info |-> [id |-> readerId, from |-> "stats"], reqs |-> <<"stats">>]
    ELSE IF stats = "bad"
    THEN [info |-> [id |-> readerId, from |-> "placeholder"], reqs |-> <<"stats">>]
    ELSE [info |-> [id |-> readerId,
                    from |-> IF details = "ok" THEN "details" ELSE "placeholder"],
          reqs |-> <<"stats", "readerdetails">>]

ReaderHit(st, readerId) == Has(st, "readers") /\ readerId \in DOMAIN st.readers

\* getReaderChannel (P1): [state, threw, reader, reqs]
getReaderChannel_P1(st, readerId, stats, details) ==
    IF ~Has(st, "readers")
    THEN [state |-> st, threw |-> TRUE, reader |-> NoReader, reqs |-> << >>]
    ELSE IF ReaderHit(st, readerId)
    THEN [state |-> st, threw |-> FALSE, reader |-> st.readers[readerId], reqs |-> << >>]
    ELSE LET f == fetchReaderInfo(readerId, stats, details)
         IN [state |-> [st EXCEPT !.readers = (readerId :> f.info) @@ @],
             threw |-> FALSE, reader |-> f.info, reqs |-> f.reqs]

\* source.getChannel on a reader URL (P1)
GetReaderChannel ==
    /\ rev = "P1"
    /\ \E readerId \in Readers : \E stats, details \in ReaderResponseKinds :
          LET r == getReaderChannel_P1(state, readerId, stats, details)
          IN /\ state' = r.state
             /\ last' = [Last("getReaderChannel", NoUrl, ReaderHit(state, readerId),
                              r.reqs, r.threw, NoDetail, r.reader)
                         EXCEPT !.cursor0 = readerId]
             /\ UNCHANGED <<rev, settings, media, saved, pager, shown>>

\* ----------------------------------------------------------- timeToSeconds

\* The largest number a component of a duration text holds.
MaxComp == 3

\* The components of a duration text, between its ':' separators: digits
\* ("2"), digits followed by other characters ("2x"), or no leading digit
\* ("xx").
Components ==
    {[t |-> "num", v |-> v] : v \in 1..MaxComp}
    \cup {[t |-> "numjunk", v |-> 1], [t |-> "junk", v |-> 0]}

\* Duration texts: one to four components; << >> is the empty string or a
\* value that is no string.
Texts == {<< >>} \cup UNION {[1..n -> Components] : n \in 1..4}

NaN == -1

\* parseInt(part, 10): the leading digits, NaN when there are none.
parseInt(c) == IF c.t \in {"num", "numjunk"} THEN c.v ELSE NaN

\* parseInt(part, 10) || 0
ParseOrZero(c) == IF parseInt(c) = NaN \/ parseInt(c) = 0 THEN 0 ELSE parseInt(c)

\* timeToSeconds (LS, P1)
timeToSeconds(text) ==
    IF text = << >> THEN 0
    ELSE LET parts == [i \in DOMAIN text |-> ParseOrZero(text[i])]
         IN IF Len(parts) = 3
            THEN parts[1] * 3600 + parts[2] * 60 + parts[3]
            ELSE IF Len(parts) = 2 THEN parts[1] * 60 + parts[2]
            ELSE 0

\* formatChapterData / the HTML chapter table hand a duration text over.
TimeToSeconds ==
    \E text \in Texts :
       /\ last' = [NoLast EXCEPT !.op = "timeToSeconds", !.text = text,
                                 !.seconds = timeToSeconds(text)]
       /\ UNCHANGED <<rev, settings, media, state, saved, pager, shown>>

\* ------------------------------------------------------- getAuthorChannel

\* The ids author URLs carry; MaxAuthor + 1 is the id of no author.
AuthorUrlIds == 1..(MaxAuthor + 1)

\* An author as the authors endpoint describes one: whether first_name,
\* last_name, url and wikipediaurl are filled.
AuthorRecs == [id : AuthorIds, first : BOOLEAN, family : BOOLEAN,
               url : BOOLEAN, wikipedia : BOOLEAN]
NoAuthor == [id |-> 0, first |-> FALSE, family |-> FALSE, url |-> FALSE,
             wikipedia |-> FALSE]

\* Responses of the authors endpoint asked for one id: a non-success status,
\* a body JSON.parse rejects, no author, or the author of that id.
AuthorByIdResponses(id) ==
    {[kind |-> "fail", author |-> NoAuthor], [kind |-> "bad", author |-> NoAuthor],
     [kind |-> "ok", author |-> NoAuthor]}
    \cup {[kind |-> "ok", author |-> a] : a \in {b \in AuthorRecs : b.id = id}}

\* getAuthorByID (P1): [threw, author].  JSON.parse is not guarded.
getAuthorByID(resp) ==
    CASE resp.kind = "fail" -> [threw |-> FALSE, author |-> NoAuthor]
      [] resp.kind = "bad" -> [threw |-> TRUE, author |-> NoAuthor]
      [] OTHER -> [threw |-> FALSE, author |-> resp.author]

\* The channel getAuthorChannel returns when `!author`.
UnknownAuthor == [name |-> "Unknown Author", idUrl |-> "request", links |-> {}]

\* getAuthorChannel (P1): [threw, found, channel]
getAuthorChannel_P1(resp) ==
    LET r == getAuthorByID(resp)
        a == r.author
    IN IF r.threw THEN [threw |-> TRUE, found |-> FALSE, channel |-> NoChannel]
       ELSE IF a = NoAuthor
       THEN [threw |-> FALSE, found |-> FALSE, channel |-> UnknownAuthor]
       ELSE [threw |-> FALSE, found |-> TRUE,
             channel |-> [name |-> IF a.first \/ a.family THEN "name"
                                   ELSE "Unknown Author",
                          idUrl |-> "author",
                          links |-> {"LibriVox"} \cup
                                    (IF a.wikipedia THEN {"Wikipedia"} ELSE {})]]

\* getAuthorChannel (LS): [threw, found, channel].  The author is looked up
\* in state.authors; the lookup raises when state holds no such array.
getAuthorChannel_LS(st, id) ==
    IF ~Has(st, "authors")
    THEN [threw |-> TRUE, found |-> FALSE, channel |-> NoChannel]
    ELSE IF id \notin st.authors
    THEN [threw |-> FALSE, found |-> FALSE, channel |-> UnknownAuthor]
    ELSE [threw |-> FALSE, found |-> TRUE,
          channel |-> [name |-> "name", idUrl |-> "author", links |-> {}]]

\* source.getChannel on an author URL
GetAuthorChannel ==
    \E id \in AuthorUrlIds :
       \E resp \in (IF rev = "LS" THEN {[kind |-> "ok", author |-> NoAuthor]}
                    ELSE AuthorByIdResponses(id)) :
          LET r == IF rev = "LS" THEN getAuthorChannel_LS(state, id)
                   ELSE getAuthorChannel_P1(resp)
          IN /\ last' = [Last("getAuthorChannel", NoUrl, r.found,
                              IF rev = "LS" THEN << >> ELSE <<"author">>,
                              r.threw, NoDetail, NoReader)
                         EXCEPT !.failed = (resp.kind # "ok"),
                                !.fetched = id,
                                !.channel = r.channel]
             /\ UNCHANGED <<rev, settings, media, state, saved, pager, shown>>

\* --------------------------------------------------------------- the system

InitState_LS == StateObj({"audiobookDetails", "authors", "latestReleaseIds"},
                         EmptyFn, {}, {}, EmptyFn)
InitState_P1 == StateObj({"readers"}, EmptyFn, {}, {}, EmptyFn)

Init ==
    /\ rev \in Revs
    /\ state = (IF rev = "LS" THEN InitState_LS ELSE InitState_P1)
    /\ saved = StrAbsent
    /\ pager = NoPager
    /\ shown = {}
    /\ last = NoLast
    /\ settings = [useHLS |-> FALSE]
    /\ media = "both"

\* Browsing: the pagers.
NextPagers ==
    \/ Enable
    \/ GetHome
    \/ HomeNextPage
    \/ Search
    \/ SearchNextPage
    \/ GetReaderAudiobooks
    \/ ReaderNextPage
    \/ GetAuthorAudiobooks

SpecPagers == Init /\ [][NextPagers]_vars

\* Details: the detail cache and the reader cache.
NextCache ==
    \/ Enable
    \/ GetPlaylist
    \/ GetContentDetails
    \/ GetReaderChannel

SpecCache == Init /\ [][NextCache]_vars

\* Persistence: the state is saved and restored between calls that fill the
\* caches.
NextPersist ==
    \/ Enable
    \/ SaveState
    \/ Reload
    \/ GetPlaylist
    \/ GetReaderChannel

SpecPersist == Init /\ [][NextPersist]_vars

\* Chapter resolution under any settings and catalogue, in the three
\* scripts.
InitChapter ==
    /\ rev \in RevsAll
    /\ state = (IF rev = "LS" THEN InitState_LS ELSE InitState_P1)
    /\ saved = StrAbsent
    /\ pager = NoPager
    /\ shown = {}
    /\ last = NoLast
    /\ settings \in [useHLS : BOOLEAN]
    /\ media \in Medias

NextChapter ==
    \/ GetPlaylist
    \/ GetContentDetails

SpecChapter == InitChapter /\ [][NextChapter]_vars

\* URL classification.
\* Channels: source.getChannel on author and reader URLs.
NextAuthor == Enable \/ GetAuthorChannel \/ GetReaderChannel
SpecAuthor == Init /\ [][NextAuthor]_vars

\* One session: the home feed and saveState, without source.enable.
NextSession == GetHome \/ HomeNextPage \/ SaveState
SpecSession == Init /\ [][NextSession]_vars

\* Duration parsing.
SpecTime == Init /\ [][TimeToSeconds]_vars

SpecUrls == Init /\ [][Classify]_vars

Next == Classify \/ TimeToSeconds \/ GetAuthorChannel \/ NextPagers \/ NextCache \/ NextPersist

Spec == Init /\ [][Next]_vars


\* ------------------------------------------------------------------ claims

PagerOps == {"getHome", "home.nextPage", "search", "search.nextPage",
             "getReaderAudiobooks", "reader.nextPage", "getAuthorAudiobooks"}

C2_OffsetAdvancesByPageSize ==
    (last.op \in PagerOps /\ last.hasMore) =>
        last.cursor = last.cursor0 + last.limit

\* The second page of a search, and of a reader listing, were fetched and
\* more is to come.
C2_Witness ==
    /\ last.op \in {"search.nextPage", "reader.nextPage"}
    /\ last.hasMore
    /\ last.cursor0 > 0

\* C3: whenever a listing page reports hasMore = false, the last fetched page
\* held strictly fewer entries than the limit requested.
C3_HasMoreFalseOnlyOnShortPage ==
    (last.op \in PagerOps /\ last.fetched >= 0 /\ ~last.hasMore) =>
        last.fetched < last.limit


DetailOps == {"getPlaylist", "getContentDetails"}

\* C4: on a cache hit (book detail via getAudiobookCachedDetails, reader
\* info via getReaderChannel) the call issues no HTTP request and returns
\* the value the cache holds.
C4_HitReturnsStoredWithoutRequest ==
    /\ (last.op \in DetailOps /\ last.hit) =>
          /\ last.reqs = << >>
          /\ CacheHit_LS(state, last.url)
          /\ last.ret = state.audiobookDetails[last.url]
    /\ (last.op = "getReaderChannel" /\ last.hit) =>
          /\ last.reqs = << >>
          /\ ~last.threw
          /\ ReaderHit(state, last.cursor0)
          /\ last.reader = state.readers[last.cursor0]

\* A playlist request answered from the detail cache.
C4_Witness ==
    /\ rev = "LS"
    /\ last.op = "getPlaylist"
    /\ last.hit
    /\ last.ret # NoDetail
    /\ last.size0 > 0

\* C5: after a book-detail request that misses the cache and resolves, the
\* resolved detail is in the state under the request's URL (so that a repeat
\* of the request is a hit).
C5_MissStoresDetail ==
    (last.op \in DetailOps /\ ~last.hit /\ ~last.threw) =>
        /\ CacheHit_LS(state, last.url)
        /\ state.audiobookDetails[last.url] = last.ret

\* C6: once a book's detail is cached under its book URL, a chapter-detail
\* request for a chapter of the same book is a hit, issues no request and
\* adds no entry to the cache.
C6_ChapterRequestUsesBookEntry ==
    (/\ last.op = "getContentDetails"
     /\ Has(state, "audiobookDetails")
     /\ \E u \in BookUrls \cap DOMAIN state.audiobookDetails :
           u.book = last.url.book /\ u.hasId = last.url.hasId) =>
        /\ last.hit
        /\ last.reqs = << >>
        /\ CacheSize(state) = last.size0

\* The caches of a state, by key; a cache the state does not hold is absent.
Caches(st) ==
    [audiobookDetails |-> IF Has(st, "audiobookDetails")
                          THEN <<"is", st.audiobookDetails>> ELSE <<"absent">>,
     readers |-> IF Has(st, "readers") THEN <<"is", st.readers>> ELSE <<"absent">>,
     authors |-> IF Has(st, "authors") THEN <<"is", st.authors>> ELSE <<"absent">>,
     latestReleaseIds |-> IF Has(st, "latestReleaseIds")
                          THEN <<"is", st.latestReleaseIds>> ELSE <<"absent">>]

\* C7: from every reachable state, enable(conf, settings, saveState())
\* completes and yields a state whose caches (book details, readers,
\* authors, latest-release ids) have the keys and values they had before.
C7_SaveEnableRoundTrip ==
    last.op = "reload" =>
        /\ ~last.threw
        /\ Caches(state) = Caches(last.state0)

CorruptInputs == {"absent", "garbage", "null", "prim", "emptyobj"}

\* Every cache of the revision is there and has no entry.
EmptyAndUsable(st) ==
    IF rev = "LS"
    THEN /\ Has(st, "audiobookDetails") /\ st.audiobookDetails = EmptyFn
         /\ Has(st, "latestReleaseIds") /\ st.latestReleaseIds = {}
         /\ Has(st, "authors")
    ELSE Has(st, "readers") /\ st.readers = EmptyFn

\* C8: source.enable given an absent or corrupt string (unparsable text,
\* JSON null, a JSON primitive, an object without the cache fields) does not
\* raise and leaves every cache empty and usable, also when the caches were
\* populated before the call.
C8_EnableToleratesCorruptState ==
    (last.op = "enable" /\ last.input \in CorruptInputs) =>
        /\ ~last.threw
        /\ EmptyAndUsable(state)

\* C9: a detail request for a URL that carries an id never requests the HTML
\* page; what it requests first is the by-id endpoint, and in the revision
\* without a detail cache it always does.
C9_IdUrlNeverFetchesHtml ==
    (last.op \in DetailOps /\ last.url.hasId) =>
        /\ "html" \notin Range(last.reqs)
        /\ last.reqs # << >> => last.reqs[1] = "api"
        /\ rev = "P1" => last.reqs # << >>

\* The by-id endpoint failed for a URL with an id, and the request ended
\* there.
C9_Witness ==
    /\ rev = "P1"
    /\ last.op \in DetailOps
    /\ last.url.hasId
    /\ last.threw
    /\ last.reqs = <<"api">>

\* C10: a detail request whose by-id endpoint call fails goes on to request
\* the HTML page: it fails only after an HTML request.
C10_EndpointFailureFallsBackToHtml ==
    (last.op \in DetailOps /\ last.threw /\ "api" \in Range(last.reqs)) =>
        "html" \in Range(last.reqs)

\* The place the ordering policy gives a source: adaptive streaming, then
\* the proxied stream, then the direct file.
SourceRank(src) ==
    IF src.type = "HLSSource" THEN 1
    ELSE IF src = ProxySource THEN 2
    ELSE 3

\* C11: the source list of a chapter detail is ordered: the HLS source first
\* and only when settings.useHLS is set, then the proxied-stream source, then
\* the direct file source.
C11_SourcesOrdered ==
    (last.op = "getContentDetails" /\ ~last.threw) =>
        /\ \A i, j \in DOMAIN last.sources :
              i < j => SourceRank(last.sources[i]) < SourceRank(last.sources[j])
        /\ (\E i \in DOMAIN last.sources : last.sources[i].type = "HLSSource")
              => settings.useHLS

\* C12: a chapter detail is never returned with an empty source list.
C12_NeverEmptySources ==
    (last.op = "getContentDetails" /\ ~last.threw) => last.sources # << >>

IsDirect(src) == src.type = "AudioUrlSource" /\ src # ProxySource
IsProxied(src) == src = ProxySource

\* C13: the source list of a chapter detail holds a direct-file source iff
\* the chapter has a non-empty file URL and a proxied-stream source iff it
\* has a section id; a chapter with only a section id yields exactly one
\* source, with container audio/mpeg and codec mp4a.40.2.
C13_SourcePerPresentInput ==
    (last.op = "getContentDetails" /\ ~last.threw) =>
        LET S == Range(last.sources)
            m == last.ret.media
        IN /\ (\E src \in S : IsDirect(src)) <=> HasFile(m)
           /\ (\E src \in S : IsProxied(src)) <=> HasSection(m)
           /\ m = "section" =>
                 /\ Len(last.sources) = 1
                 /\ last.sources[1].container = "audio/mpeg"
                 /\ last.sources[1].codec = "mp4a.40.2"

\* C16: getContentDetails returns a chapter only when the chapter parameter
\* of the URL is the index of a chapter of the resolved book, and then that
\* chapter; otherwise (parameter absent, empty or out of range) it raises
\* 'Chapter not found'.
C16_ChapterNotFoundUnlessIndex ==
    (last.op = "getContentDetails" /\ ~last.threw) =>
        /\ last.url.chap \in 0..(last.ret.nchap - 1)
        /\ last.chapter = last.url.chap

\* C14: for every URL at most one of isContentDetailsUrl, isChannelUrl and
\* isPlaylistUrl returns true; a book URL with a chapter parameter is a
\* chapter URL and not also a playlist URL.
C14_ClassifiersExclusive ==
    last.op = "classify" => Cardinality(last.classes) <= 1

C17_UnknownAuthorIsFatal ==
    (last.op = "getAuthorChannel" /\ ~last.failed /\ ~last.hit) =>
        (last.threw /\ last.channel = NoChannel)

\* C18: nextPage does not change the pager it is called on (its context,
\* items and hasMore), for the home, search and reader pagers; so two calls
\* on one pager instance issue the same request.
C18_NextPageLeavesReceiver ==
    last.op \in {"home.nextPage", "search.nextPage", "reader.nextPage"} =>
        ~last.mutated

\* C19: over the nextPage calls on one home feed pager, the latest-releases
\* endpoint is requested exactly once and before every catalog request (by
\* the first page fetch, and by no later one), and every id it returned is
\* in the dedup set before the first catalog page is filtered.
C19_LatestOnceBeforeCatalog ==
    (last.op \in {"getHome", "home.nextPage"} /\ last.reqs # << >>) =>
        IF last.op = "getHome" \/ (rev = "LS" /\ last.cursor0 = 0)
        THEN /\ last.reqs = <<"latest", "catalog">>
             /\ Has(state, "latestReleaseIds")
             /\ pager.latest \subseteq state.latestReleaseIds
        ELSE last.reqs = <<"catalog">>

C21_ReaderBookListedOnce ==
    [][(last'.op = "reader.nextPage" /\ pager.hasMore) =>
          pager.regular \cap pager'.regular = {}]_vars

\* The paths of books: neither a reserved system path nor a
\* collection-aggregation page.  searching-tales is a book whose slug begins
\* with a reserved word.
BookPaths == {"some-book", "searching-tales"}

\* C22: isPlaylistUrl accepts a librivox.org URL iff its path is not a
\* reserved system path and not a collection-aggregation page: group and
\* collection pages are rejected, a book whose slug begins with a reserved
\* word is accepted.
C22_PlaylistIffBookPath ==
    (last.op = "classify" /\ LibrivoxHost(last.form)) =>
        ("playlist" \in last.classes <=> last.form.path \in BookPaths)

\* Whether every component of a duration text is a number.
AllNumeric(text) == \A i \in DOMAIN text : text[i].t = "num"

\* C23: timeToSeconds returns H*3600 + M*60 + S for H:MM:SS and M*60 + S for
\* MM:SS, and 0 for the whole duration whenever a component is not a number
\* or the text is malformed.
C23_DurationOrZero ==
    last.op = "timeToSeconds" =>
        last.seconds =
            (IF AllNumeric(last.text) /\ Len(last.text) = 3
             THEN last.text[1].v * 3600 + last.text[2].v * 60 + last.text[3].v
             ELSE IF AllNumeric(last.text) /\ Len(last.text) = 2
             THEN last.text[1].v * 60 + last.text[2].v
             ELSE 0)

\* C24: for every book getPlaylist resolves and every chapter i it lists,
\* getContentDetails on the chapter URL it emitted names the same book,
\* asks the same source first and, when it returns, returns chapter i of
\* that book from that source.
C24_ChapterUrlRoundTrip ==
    [][(/\ last.op = "getPlaylist" /\ ~last.threw
        /\ last'.op = "getContentDetails"
        /\ \E i \in 0..(last.ret.nchap - 1) :
              last'.url = ChapterUrl(rev, last.url, i)) =>
          /\ last'.url.book = last.ret.book
          /\ Head(last'.reqs) = last.ret.src
          /\ ~last'.threw =>
                /\ last'.ret.book = last.ret.book
                /\ last'.ret.src = last.ret.src
                /\ last'.chapter = last'.url.chap]_vars

\* C25: the playlist URL getPlaylist returns for a book it resolved names
\* the same book by an id and, passed back to getPlaylist, is resolved by
\* the structured by-id endpoint.
C25_PlaylistUrlRoundTrip ==
    [][(/\ last.op = "getPlaylist" /\ ~last.threw
        /\ last'.op = "getPlaylist"
        /\ last'.url = PlaylistUrl(rev, last.url)) =>
          /\ last'.url.book = last.ret.book
          /\ last'.url.hasId
          /\ last'.reqs # << >> => Head(last'.reqs) = "api"]_vars

\* C26: once a home feed pager has reported hasMore = false, every later
\* nextPage call on it issues no request and leaves hasMore false.
C26_ExhaustedHomePagerStaysQuiet ==
    [][(last'.op = "home.nextPage" /\ pager.kind = "home" /\ ~pager.hasMore) =>
          (last'.reqs = << >> /\ ~pager'.hasMore)]_vars

\* C27: a book-detail resolution that ends in a failure (non-success status,
\* missing book, missing sections, unparsable body) leaves the persisted
\* state unchanged: no cache entry is added or overwritten.
C27_FailedResolutionLeavesState ==
    [][(last'.op \in DetailOps /\ last'.threw /\ last'.ret = NoDetail) =>
          state' = state]_vars

\* A resolution failed after its request, while the cache held entries.
C27_Witness ==
    /\ rev = "LS"
    /\ last.op \in DetailOps
    /\ last.threw /\ last.ret = NoDetail
    /\ last.reqs # << >>
    /\ CacheSize(state) > 0

C29_OnlyOwnLatestHidesCatalogBook ==
    (/\ last.op \in {"getHome", "home.nextPage"}
     /\ last.reqs # << >> /\ last.cursor0 = 0 /\ ~last.failed
     /\ rev = "LS" => Has(state, "latestReleaseIds")) =>
        (last.raw \ pager.regular) \subseteq pager.latest

\* C30: when a page fetch fails (non-success status or unreadable body) the
\* cursor is left unchanged: the home pager keeps its offset, and the pager
\* a search or reader pager returns carries the offset or page of the pager
\* nextPage was called on.
C30_FailedFetchKeepsCursor ==
    (last.op \in PagerOps /\ last.failed) => last.cursor = last.cursor0

====
